---- MODULE Spec2Model ----
(***************************************************************************)
(* A model of clic.h (src/clic.h): the process-wide registry clic_globals, *)
(* the declaration functions clic_init / clic_add_*, and clic_parse.       *)
(*                                                                         *)
(* C strings are sequences of one-character strings; the null pointer is   *)
(* NULL.  clic_fail and the help/version paths end the process: `status'   *)
(* records how.  clic_parse is one synchronous call, but its parameter     *)
(* loop need not terminate, so it is modelled in steps: entry (checks and  *)
(* subcommand detection), one step per iteration of the parameter loop,    *)
(* and one final step (named arguments, trailing check, cleanup, return).  *)
(* No other call can start while pc # "idle".                              *)
(***************************************************************************)
EXTENDS Integers, Sequences, FiniteSets, TLC

\* ------------------------------------------------------------- bounds ---
\* at most MaxDecls successful clic_add_* calls (entries over all lists)
MaxDecls == 2
\* at most MaxArgs command line tokens after argv[0]
MaxArgs == 2

\* ------------------------------------------------------------ strings ---
NULL == <<"NULL">>

Lower == {"a","b","c","d","e","f","g","h","i","j","k","l","m",
          "n","o","p","q","r","s","t","u","v","w","x","y","z"}

Upper == {"A","B","C","D","E","F","G","H","I","J","K","L","M",
          "N","O","P","Q","R","S","T","U","V","W","X","Y","Z"}

Alpha == Lower \cup Upper

\* isalpha(3) in the C locale
isalpha(c) == c \in Alpha

\* strncmp(s, prefix, Len(prefix)) == 0
HasPrefix(s, prefix) ==
    /\ Len(s) >= Len(prefix)
    /\ SubSeq(s, 1, Len(prefix)) = prefix

\* s + n: the string starting n characters into s
Skip(s, n) == SubSeq(s, n + 1, Len(s))

\* enum clic_type
CLIC_FLAG == "CLIC_FLAG"
CLIC_BOOL == "CLIC_BOOL"
CLIC_INT == "CLIC_INT"
CLIC_STRING == "CLIC_STRING"

\* ------------------------------------------------------------- inputs ---
\* The values callers and users supply.  Two sets of inputs are explored:
\* DeclInputs varies the declarations (scope ids, names, kinds), keeps the
\* command line short and goes on calling after clic_parse has returned;
\* ParseInputs varies the command line and the main scope, keeps the
\* declarations to one name and one subcommand, and makes clic_parse the
\* last call (the three-part use the header describes).
Bools == {0, 1}

\* argv[1] is the program name (C's argv[0]), then 0..MaxArgs tokens drawn
\* from `tokens'; argc = Len(argv) and C's argv[argc] is the null pointer
ArgvsOver(tokens) ==
    { <<<<"p">>>> \o t : t \in UNION { [1..n -> tokens] : n \in 0..MaxArgs } }

DeclInputs ==
    [Programs |-> { <<"a">>, <<"p">> },
     Versions |-> { <<"1">> },
     MainAccepts |-> {0},
     ScopeIds |-> {0, 1, 2},
     SubNames |-> { <<"a">>, <<"b">>, <<"1">> },
     SubAccepts |-> {0},
     Names |-> { <<"a">>, <<"b">>, <<"1">> },
     FlagChars |-> { "a", "1" },
     Masks |-> {0},
     OptionValues |-> { <<"a">> },
     Argvs |-> ArgvsOver({ <<"a">> }),
     NullOuts |-> {FALSE},
     CallsAfterParse |-> TRUE]

ParseInputs ==
    [Programs |-> { <<"p">> },
     Versions |-> { NULL, <<"1">> },
     MainAccepts |-> {0, 1},
     ScopeIds |-> {0, 1},
     SubNames |-> { <<"a">>, <<"a","b">> },
     SubAccepts |-> {0},
     Names |-> { <<"a">> },
     FlagChars |-> { "a" },
     Masks |-> {0},
     OptionValues |-> { <<"a">> },
     Argvs |-> ArgvsOver({ <<"-","-">>, <<"-","a">>, <<"-","-","a">>,
                           <<"-","-","n","o","-","a">>, <<"a">>,
                           <<"-","-","h","e","l","p">>,
                           <<"-","-","v","e","r","s","i","o","n">> }),
     NullOuts |-> {FALSE, TRUE},
     CallsAfterParse |-> FALSE]

\* ------------------------------------------------------------- state ----
VARIABLES
    is_init,                \* clic_globals.is_init
    is_parsed,              \* clic_globals.is_parsed
    flag_names,             \* clic_globals.flag_names (list of 1-char names)
    params_and_args,        \* clic_globals.params_and_args
    string_options,         \* clic_globals.string_options
    subcommand_scopes,      \* clic_globals.subcommand_scopes
    metadata,               \* clic_globals.metadata
    main_scope,             \* clic_globals.main_scope
    freed,                  \* the list nodes were freed by clic_parse's cleanup
    status,                 \* "running", or how the process ended
    error_message,          \* the message given to clic_fail, NoError before
    pc,                     \* position inside clic_parse, "idle" outside
    argv,                   \* clic_parse's argv
    out_null,               \* clic_parse's subcommand_id pointer is null
    out_subcommand_id,      \* the caller's variable behind that pointer
    nb_processed_arguments, \* clic_parse's local counter
    active_scope,           \* clic_parse's local copy of the active scope
    ret,                    \* value returned by clic_parse, NoRet before
    looked_up,              \* history: argv indices searched in params_and_args
    parsed                  \* history: the calls of clic_parse_param_or_arg

decl_vars == <<flag_names, params_and_args, string_options, subcommand_scopes>>
init_vars == <<is_init, metadata, main_scope>>
parse_vars == <<pc, argv, out_null, out_subcommand_id, nb_processed_arguments,
                active_scope, ret, looked_up, parsed>>
vars == <<is_init, is_parsed, flag_names, params_and_args, string_options,
          subcommand_scopes, metadata, main_scope, freed, status, pc, argv,
          out_null, out_subcommand_id, nb_processed_arguments, active_scope,
          ret, looked_up, parsed, error_message>>

\* clic_parse has not returned a value; the caller's variable has not been
\* written (both lie outside the values the program produces)
NoRet == 0 - 1

Unset == 0 - 1

\* struct clic_scope, zero-initialised (static storage)
ZeroScope ==
    [subcommand_id |-> 0, subcommand_name |-> NULL, accept_unnamed_arguments |-> 0]

NoError == ""

Init ==
    /\ is_init = 0
    /\ is_parsed = 0
    /\ flag_names = <<>>
    /\ params_and_args = <<>>
    /\ string_options = <<>>
    /\ subcommand_scopes = <<>>
    /\ metadata = [version |-> NULL]
    /\ main_scope = ZeroScope
    /\ freed = FALSE
    /\ status = "running"
    /\ pc = "idle"
    /\ argv = <<>>
    /\ out_null = FALSE
    /\ out_subcommand_id = Unset
    /\ nb_processed_arguments = 0
    /\ active_scope = ZeroScope
    /\ ret = NoRet
    /\ looked_up = {}
    /\ parsed = {}
    /\ error_message = NoError

\* the caller is between two API calls
Idle == status = "running" /\ pc = "idle"

\* number of list entries the successful declarations created
NbDecls == Len(params_and_args) + Len(string_options) + Len(subcommand_scopes)


\* --------------------------------------------------------- the checks ---
\* A check is the message it gives to clic_fail, or NoError when it returns.

clic_check_initialized_and_not_parsed_no_init ==
    IF is_parsed # 0 THEN "clic has already parsed command line arguments"
    ELSE NoError

clic_check_initialized_and_not_parsed ==
    IF is_init = 0 THEN "clic has not been initialized"
    ELSE IF is_parsed # 0 THEN "clic has already parsed command line arguments"
    ELSE NoError

clic_check_name_correctness(name) ==
    IF /\ name # NULL
       /\ Len(name) > 0
       /\ isalpha(name[1])
       /\ \A i \in 1..Len(name) : isalpha(name[i]) \/ name[i] \in {"-", "_"}
    THEN NoError
    ELSE "clic: invalid parameter/argument name"

\* is_declared, as the loop of clic_check_param_or_arg_declaration computes it
param_or_arg_is_declared(subcommand_id, param_or_arg_name) ==
    \E i \in 1..Len(params_and_args) :
        /\ subcommand_id = params_and_args[i].subcommand_id
        /\ param_or_arg_name = params_and_args[i].name

clic_check_param_or_arg_declaration_long_names(subcommand_id, param_or_arg_name, should_be_declared) ==
    IF clic_check_name_correctness(param_or_arg_name) # NoError
    THEN clic_check_name_correctness(param_or_arg_name)
    ELSE IF /\ should_be_declared # 0
            /\ ~ param_or_arg_is_declared(subcommand_id, param_or_arg_name)
    THEN "clic: parameter/argument has not been declared in this scope"
    ELSE IF /\ should_be_declared = 0
            /\ param_or_arg_is_declared(subcommand_id, param_or_arg_name)
            /\ Len(param_or_arg_name) > 1
    THEN "clic: parameter/argument has already been declared in this scope"
    ELSE NoError

clic_check_param_or_arg_declaration(subcommand_id, param_or_arg_name, should_be_declared) ==
    IF clic_check_name_correctness(param_or_arg_name) # NoError
    THEN clic_check_name_correctness(param_or_arg_name)
    ELSE IF /\ should_be_declared # 0
            /\ ~ param_or_arg_is_declared(subcommand_id, param_or_arg_name)
    THEN "clic: parameter/argument has not been declared in this scope"
    ELSE IF /\ should_be_declared = 0
            /\ param_or_arg_is_declared(subcommand_id, param_or_arg_name)
    THEN "clic: parameter/argument has already been declared in this scope"
    ELSE NoError

clic_check_subcommmand_declaration(subcommand_id, subcommand_name, should_be_declared) ==
    IF subcommand_id # 0
    THEN IF should_be_declared # 0
         THEN IF \E i \in 1..Len(subcommand_scopes) :
                     subcommand_id = subcommand_scopes[i].subcommand_id
              THEN NoError
              ELSE "clic: subcommand has not been declared"
         ELSE IF clic_check_name_correctness(subcommand_name) # NoError
              THEN clic_check_name_correctness(subcommand_name)
              ELSE IF \E i \in 1..Len(subcommand_scopes) :
                         /\ subcommand_id = subcommand_scopes[i].subcommand_id
                         /\ subcommand_name = subcommand_scopes[i].subcommand_name
              THEN "clic: subcommand has already been declared"
              ELSE NoError
    ELSE IF should_be_declared = 0
    THEN "clic: 0 is already implicitely used as the main scope identifier"
    ELSE NoError

\* checks run in sequence: the first one that fails ends the process
FirstError(checks) ==
    LET failed == { i \in 1..Len(checks) : checks[i] # NoError }
    IN  IF failed = {} THEN NoError
        ELSE checks[CHOOSE i \in failed : \A j \in failed : i <= j]

\* clic_fail: perror(error_message), exit(EXIT_FAILURE)
clic_fail(message) ==
    /\ status' = "config_error"
    /\ error_message' = message

\* ------------------------------------------------------- declarations ---
clic_init(program, version, accept_unnamed_arguments) ==
    /\ Idle
    /\ is_init' = 1
    /\ metadata' = [version |-> version]
    /\ main_scope' = [subcommand_id |-> 0, subcommand_name |-> program,
                      accept_unnamed_arguments |-> accept_unnamed_arguments]
    /\ UNCHANGED <<is_parsed, decl_vars, freed, status, error_message, parse_vars>>

clic_add_subcommand(subcommand_id, name, accept_unnamed_arguments) ==
    /\ Idle
    /\ LET error == FirstError(<<
               clic_check_initialized_and_not_parsed,
               clic_check_name_correctness(name),
               clic_check_subcommmand_declaration(subcommand_id, name, 0)>>)
       IN  IF error = NoError
           THEN /\ NbDecls < MaxDecls
                /\ subcommand_scopes' = Append(subcommand_scopes,
                       [subcommand_id |-> subcommand_id, subcommand_name |-> name,
                        accept_unnamed_arguments |-> accept_unnamed_arguments])
                /\ UNCHANGED <<status, error_message>>
           ELSE /\ clic_fail(error)
                /\ UNCHANGED subcommand_scopes
    /\ UNCHANGED <<init_vars, is_parsed, flag_names, params_and_args,
                   string_options, freed, parse_vars>>

\* struct clic_param_or_arg of a compound literal: unnamed fields are zero
ZeroParam ==
    [subcommand_id |-> 0, name |-> NULL, type |-> CLIC_FLAG, is_required |-> 0,
     mask |-> 0, restrict_to_declared_options |-> 0]

\* clic_add_to_list writes list->end->next when list->start is not null:
\* after clic_parse's cleanup the nodes are freed but start/end still point
\* to them, so that write is a use after free (undefined behaviour)
clic_add_to_list_outcomes(list) ==
    IF freed /\ list # <<>> THEN {"crash", "continue"} ELSE {"continue"}

clic_add_to_list(list, elem) == Append(list, elem)

\* body of the static clic_add_param_or_arg, called by the six functions below
clic_add_param_or_arg(subcommand_id, name, type, is_required, inconsistent_data) ==
    LET error == FirstError(<<
            clic_check_initialized_and_not_parsed,
            clic_check_name_correctness(name),
            clic_check_subcommmand_declaration(subcommand_id, NULL, 1),
            clic_check_param_or_arg_declaration(subcommand_id, name, 0)>>)
    IN  IF error = NoError
        THEN /\ NbDecls < MaxDecls
             /\ params_and_args' = clic_add_to_list(params_and_args,
                    [inconsistent_data EXCEPT !.subcommand_id = subcommand_id,
                                              !.name = name,
                                              !.type = type,
                                              !.is_required = is_required])
             /\ UNCHANGED <<status, error_message>>
        ELSE /\ clic_fail(error)
             /\ UNCHANGED params_and_args

clic_add_param_flag(subcommand_id, name, mask) ==
    /\ Idle
    /\ \E outcome \in clic_add_to_list_outcomes(flag_names) :
        IF outcome = "crash"
        THEN /\ status' = "crash"
             /\ UNCHANGED <<flag_names, params_and_args, error_message>>
        ELSE /\ flag_names' = clic_add_to_list(flag_names, <<name>>)
             /\ clic_add_param_or_arg(subcommand_id, <<name>>, CLIC_FLAG, 0,
                    [ZeroParam EXCEPT !.mask = mask])
    /\ UNCHANGED <<init_vars, is_parsed, string_options, subcommand_scopes,
                   freed, parse_vars>>

clic_add_param_bool(subcommand_id, name, mask) ==
    /\ Idle
    /\ clic_add_param_or_arg(subcommand_id, name, CLIC_BOOL, 0,
           [ZeroParam EXCEPT !.mask = mask])
    /\ UNCHANGED <<init_vars, is_parsed, flag_names, string_options,
                   subcommand_scopes, freed, parse_vars>>

clic_add_param_int(subcommand_id, name) ==
    /\ Idle
    /\ clic_add_param_or_arg(subcommand_id, name, CLIC_INT, 0, ZeroParam)
    /\ UNCHANGED <<init_vars, is_parsed, flag_names, string_options,
                   subcommand_scopes, freed, parse_vars>>

clic_add_param_string(subcommand_id, name, restrict_to_declared_options) ==
    /\ Idle
    /\ clic_add_param_or_arg(subcommand_id, name, CLIC_STRING, 0,
           [ZeroParam EXCEPT !.restrict_to_declared_options =
                                 restrict_to_declared_options])
    /\ UNCHANGED <<init_vars, is_parsed, flag_names, string_options,
                   subcommand_scopes, freed, parse_vars>>

clic_add_arg_int(subcommand_id, name) ==
    /\ Idle
    /\ clic_add_param_or_arg(subcommand_id, name, CLIC_INT, 1, ZeroParam)
    /\ UNCHANGED <<init_vars, is_parsed, flag_names, string_options,
                   subcommand_scopes, freed, parse_vars>>

clic_add_arg_string(subcommand_id, name, restrict_to_declared_options) ==
    /\ Idle
    /\ clic_add_param_or_arg(subcommand_id, name, CLIC_STRING, 1,
           [ZeroParam EXCEPT !.restrict_to_declared_options =
                                 restrict_to_declared_options])
    /\ UNCHANGED <<init_vars, is_parsed, flag_names, string_options,
                   subcommand_scopes, freed, parse_vars>>

clic_add_string_option(subcommand_id, param_or_arg_name, value) ==
    /\ Idle
    /\ LET error == FirstError(<<
               clic_check_initialized_and_not_parsed,
               clic_check_subcommmand_declaration(subcommand_id, NULL, 1),
               clic_check_param_or_arg_declaration(subcommand_id,
                                                   param_or_arg_name, 1)>>)
       IN  IF error = NoError
           THEN /\ NbDecls < MaxDecls
                /\ string_options' = clic_add_to_list(string_options,
                       [subcommand_id |-> subcommand_id,
                        param_or_arg_name |-> param_or_arg_name,
                        value |-> value])
                /\ UNCHANGED <<status, error_message>>
           ELSE /\ clic_fail(error)
                /\ UNCHANGED string_options
    /\ UNCHANGED <<init_vars, is_parsed, flag_names, params_and_args,
                   subcommand_scopes, freed, parse_vars>>

\* ------------------------------------------------------------ parsing ---
\* C's a[k] for the argv array a of argc = Len(a) strings; a[argc] is null
argv_at(a, k) == IF k + 1 <= Len(a) THEN a[k + 1] ELSE NULL

\* index of the first subcommand scope named like argv[1], 0 when there is
\* none or argc <= 1 (the "detect subcommand" loop)
detect_subcommand_off_by_one(a) ==
    IF Len(a) > 2 /\ \E i \in 1..Len(subcommand_scopes) :
                         a[2] = subcommand_scopes[i].subcommand_name
    THEN CHOOSE i \in 1..Len(subcommand_scopes) :
             /\ a[2] = subcommand_scopes[i].subcommand_name
             /\ \A j \in 1..(i - 1) : a[2] # subcommand_scopes[j].subcommand_name
    ELSE 0

detect_subcommand(a) ==
    IF Len(a) > 1 /\ \E i \in 1..Len(subcommand_scopes) :
                         a[2] = subcommand_scopes[i].subcommand_name
    THEN CHOOSE i \in 1..Len(subcommand_scopes) :
             /\ a[2] = subcommand_scopes[i].subcommand_name
             /\ \A j \in 1..(i - 1) : a[2] # subcommand_scopes[j].subcommand_name
    ELSE 0

\* writing *subcommand_id through a null pointer is undefined behaviour
store_subcommand_id_outcomes(null_out) ==
    IF null_out THEN {"crash", "continue"} ELSE {"continue"}

\* clic_parse up to the parameter loop
clic_parse(a, null_out) ==
    /\ Idle
    /\ IF clic_check_initialized_and_not_parsed # NoError
       THEN /\ clic_fail(clic_check_initialized_and_not_parsed)
            /\ UNCHANGED <<is_parsed, parse_vars>>
       ELSE /\ is_parsed' = 1
            /\ argv' = a
            /\ out_null' = null_out
            /\ ret' = NoRet
            /\ looked_up' = {}
            /\ parsed' = {}
            /\ LET found == detect_subcommand(a) IN
                /\ active_scope' = IF found = 0 THEN main_scope
                                   ELSE subcommand_scopes[found]
                /\ nb_processed_arguments' = IF found = 0 THEN 0 ELSE 1
            /\ \E outcome \in store_subcommand_id_outcomes(null_out) :
                IF outcome = "crash"
                THEN /\ status' = "crash"
                     /\ UNCHANGED <<pc, out_subcommand_id, error_message>>
                ELSE /\ pc' = "params"
                     /\ out_subcommand_id' =
                            IF null_out THEN out_subcommand_id
                            ELSE active_scope'.subcommand_id
                     /\ UNCHANGED <<status, error_message>>
    /\ UNCHANGED <<init_vars, decl_vars, freed>>

\* !strcmp(s, "--")
is_sentinel_never(s) == FALSE

is_sentinel(s) == s = <<"-", "-">>

\* the name a token designates in the parameter loop, NULL for "not a
\* parameter"
parameter_name(s) ==
    IF Len(s) = 2 /\ s[1] = "-" /\ isalpha(s[2]) THEN Skip(s, 1)
    ELSE IF HasPrefix(s, <<"-", "-", "n", "o", "-">>) THEN Skip(s, 5)
    ELSE IF HasPrefix(s, <<"-", "-">>) THEN Skip(s, 2)
    ELSE NULL

\* index of the first entry of the active scope named `name', 0 when none
find_param_any_scope(scope_id, name) ==
    IF \E i \in 1..Len(params_and_args) : name = params_and_args[i].name
    THEN CHOOSE i \in 1..Len(params_and_args) :
             /\ name = params_and_args[i].name
             /\ \A j \in 1..(i - 1) : name # params_and_args[j].name
    ELSE 0

find_param(scope_id, name) ==
    IF \E i \in 1..Len(params_and_args) :
           /\ scope_id = params_and_args[i].subcommand_id
           /\ name = params_and_args[i].name
    THEN CHOOSE i \in 1..Len(params_and_args) :
             /\ scope_id = params_and_args[i].subcommand_id
             /\ name = params_and_args[i].name
             /\ \A j \in 1..(i - 1) :
                    ~ (/\ scope_id = params_and_args[j].subcommand_id
                       /\ name = params_and_args[j].name)
    ELSE 0

\* the function body is a TODO: it reads nothing, stores nothing, returns 0
clic_parse_param_or_arg(param_or_arg, arg1, arg2) == 0

\* the body is a TODO followed by exit(EXIT_SUCCESS)
clic_print_help_returns(scope) == status' = status

clic_print_help(scope) == status' = "exit_success"

\* one iteration of the "eat parameters" loop
clic_parse_eat_parameter ==
    /\ status = "running"
    /\ pc = "params"
    /\ LET s == argv_at(argv, 1 + nb_processed_arguments)
           name == parameter_name(s)
           found == find_param(active_scope.subcommand_id, name)
       IN  IF s = NULL
           THEN /\ pc' = "args"
                /\ UNCHANGED <<nb_processed_arguments, looked_up, status>>
           ELSE IF is_sentinel(s)
           THEN /\ nb_processed_arguments' = nb_processed_arguments + 1
                /\ pc' = "args"
                /\ UNCHANGED <<looked_up, status>>
           ELSE IF name = NULL
           THEN /\ pc' = "args"
                /\ UNCHANGED <<nb_processed_arguments, looked_up, status>>
           ELSE /\ looked_up' = looked_up \cup {1 + nb_processed_arguments}
                /\ IF found # 0
                   THEN /\ nb_processed_arguments' = nb_processed_arguments +
                               clic_parse_param_or_arg(params_and_args[found], s,
                                   argv_at(argv, 1 + nb_processed_arguments + 1))
                        /\ UNCHANGED <<pc, status>>
                   ELSE IF s = <<"-","-","h","e","l","p">>
                   THEN /\ clic_print_help(active_scope)
                        /\ UNCHANGED <<pc, nb_processed_arguments>>
                   ELSE IF s = <<"-","-","v","e","r","s","i","o","n">>
                           /\ metadata.version # NULL
                   THEN /\ status' = "exit_success"
                        /\ UNCHANGED <<pc, nb_processed_arguments>>
                   ELSE UNCHANGED <<pc, nb_processed_arguments, status>>
    /\ LET s == argv_at(argv, 1 + nb_processed_arguments)
           found == find_param(active_scope.subcommand_id, parameter_name(s))
       IN  parsed' = IF /\ s # NULL
                        /\ ~ is_sentinel(s)
                        /\ parameter_name(s) # NULL
                        /\ found # 0
                     THEN parsed \cup
                              {[loop |-> "parameters", param |-> found,
                                arg1 |-> 1 + nb_processed_arguments]}
                     ELSE parsed
    /\ UNCHANGED <<init_vars, is_parsed, decl_vars, freed, argv, out_null,
                   out_subcommand_id, active_scope, ret, error_message>>

\* the "eat named arguments" loop from entry i on, nb being the counter:
\* the counter after the loop
RECURSIVE eat_named_arguments(_, _)
eat_named_arguments(i, nb) ==
    IF i > Len(params_and_args) THEN nb
    ELSE IF \/ active_scope.subcommand_id # params_and_args[i].subcommand_id
            \/ params_and_args[i].is_required = 0
    THEN eat_named_arguments(i + 1, nb)
    ELSE eat_named_arguments(i + 1,
             nb + clic_parse_param_or_arg(params_and_args[i],
                                          argv_at(argv, 1 + nb), NULL))

\* the calls of clic_parse_param_or_arg that loop makes from entry i on:
\* which entry, and the index in argv of the token given as arg1
RECURSIVE named_arguments_calls(_, _)
named_arguments_calls(i, nb) ==
    IF i > Len(params_and_args) THEN {}
    ELSE IF \/ active_scope.subcommand_id # params_and_args[i].subcommand_id
            \/ params_and_args[i].is_required = 0
    THEN named_arguments_calls(i + 1, nb)
    ELSE {[loop |-> "named arguments", param |-> i, arg1 |-> 1 + nb]} \cup
         named_arguments_calls(i + 1,
             nb + clic_parse_param_or_arg(params_and_args[i],
                                          argv_at(argv, 1 + nb), NULL))

\* clic_parse after the parameter loop: named arguments, the (empty) check
\* for unnamed arguments, cleanup, return
clic_parse_finish ==
    /\ status = "running"
    /\ pc = "args"
    /\ nb_processed_arguments' = eat_named_arguments(1, nb_processed_arguments)
    /\ freed' = TRUE
    /\ parsed' = parsed \cup named_arguments_calls(1, nb_processed_arguments)
    /\ ret' = nb_processed_arguments'
    /\ pc' = "idle"
    /\ UNCHANGED <<init_vars, is_parsed, decl_vars, status, argv, out_null,
                   out_subcommand_id, active_scope, looked_up, error_message>>

\* a program drawing its inputs from `in' is between two calls and may make
\* another one
MayCall(in) == Idle /\ (in.CallsAfterParse \/ is_parsed = 0)

\* the calls of a program with inputs drawn from `in', and the steps of a
\* running clic_parse
NextOver(in) ==
    \/ MayCall(in) /\ \E p \in in.Programs, v \in in.Versions,
                         a \in in.MainAccepts : clic_init(p, v, a)
    \/ MayCall(in) /\ \E id \in in.ScopeIds, n \in in.SubNames,
                         a \in in.SubAccepts : clic_add_subcommand(id, n, a)
    \/ MayCall(in) /\ \E id \in in.ScopeIds, c \in in.FlagChars,
                         m \in in.Masks : clic_add_param_flag(id, c, m)
    \/ MayCall(in) /\ \E id \in in.ScopeIds, n \in in.Names,
                         m \in in.Masks : clic_add_param_bool(id, n, m)
    \/ MayCall(in) /\ \E id \in in.ScopeIds, n \in in.Names :
                         clic_add_param_int(id, n)
    \/ MayCall(in) /\ \E id \in in.ScopeIds, n \in in.Names, r \in Bools :
                         clic_add_param_string(id, n, r)
    \/ MayCall(in) /\ \E id \in in.ScopeIds, n \in in.Names :
                         clic_add_arg_int(id, n)
    \/ MayCall(in) /\ \E id \in in.ScopeIds, n \in in.Names, r \in Bools :
                         clic_add_arg_string(id, n, r)
    \/ MayCall(in) /\ \E id \in in.ScopeIds, n \in in.Names,
                         v \in in.OptionValues : clic_add_string_option(id, n, v)
    \/ MayCall(in) /\ \E a \in in.Argvs, null_out \in in.NullOuts :
                         clic_parse(a, null_out)
    \/ clic_parse_eat_parameter
    \/ clic_parse_finish

Next == NextOver(DeclInputs)

NextParse == NextOver(ParseInputs)

\* programs that vary their declarations
Spec == Init /\ [][Next]_vars

\* programs that vary their command line
SpecParse == Init /\ [][NextParse]_vars

\* ------------------------------------------------------------- claims ---
\* clic_parse has returned to its caller
Returned == Idle /\ ret # NoRet

\* the keys (subcommand_id, name) of two entries of params_and_args differ
DistinctKeys(i, j) ==
    \/ params_and_args[i].subcommand_id # params_and_args[j].subcommand_id
    \/ params_and_args[i].name # params_and_args[j].name

\* C1: once clic_parse has been called, every later call of a declaration
\* function or of clic_parse fails with a configuration error (only clic_init,
\* which touches the main scope and the metadata alone, may succeed), and
\* is_parsed stays set.
C1_ParsedIsFinal ==
    [][(Idle /\ is_parsed = 1) =>
          /\ is_parsed' = 1
          /\ \/ status' = "config_error"
             \/ UNCHANGED <<decl_vars, freed, status, error_message, parse_vars>>]_vars

\* C2: before clic_init, every call other than clic_init ends the process
\* with the configuration error "clic has not been initialized" and leaves
\* the lists clic_parse reads as they were; the ended process takes no step.
C2_UninitializedCallsFail ==
    [][/\ status = "running"
       /\ (Idle /\ is_init = 0) =>
             \/ /\ is_init' = 1
                /\ status' = "running"
             \/ /\ status' = "config_error"
                /\ error_message' = "clic has not been initialized"
                /\ is_init' = 0
                /\ UNCHANGED <<params_and_args, string_options,
                               subcommand_scopes, is_parsed, pc>>]_vars

\* a declaration was refused before clic_init, here clic_add_param_flag,
\* which had already put its name in flag_names
C2_Witness ==
    /\ status = "config_error"
    /\ error_message = "clic has not been initialized"
    /\ is_init = 0
    /\ flag_names # <<>>
    /\ params_and_args = <<>>

\* C3: once clic_init has been called, no later call (a second clic_init
\* least of all, which is to fail) changes the main scope or the metadata.
C3_SecondInitChangesNothing ==
    [][(Idle /\ is_init = 1) => UNCHANGED <<metadata, main_scope>>]_vars

\* C4: no two entries of params_and_args have the same (subcommand_id, name),
\* whatever their types.
C4_UniqueParamKeys ==
    \A i, j \in 1..Len(params_and_args) : i # j => DistinctKeys(i, j)

\* a one-letter Bool/Int/String name was refused because a Flag of the same
\* scope has that character (flag_names holds one name: the refused call was
\* not clic_add_param_flag)
C4_Witness ==
    /\ status = "config_error"
    /\ error_message =
           "clic: parameter/argument has already been declared in this scope"
    /\ Len(params_and_args) = 1
    /\ params_and_args[1].type = CLIC_FLAG
    /\ Len(flag_names) = 1

\* C5: the ids of the registered subcommand scopes are nonzero and pairwise
\* distinct (clic_add_subcommand refuses id 0 and an id already registered).
C5_UniqueScopeIds ==
    /\ \A i \in 1..Len(subcommand_scopes) : subcommand_scopes[i].subcommand_id # 0
    /\ \A i, j \in 1..Len(subcommand_scopes) :
           i # j => subcommand_scopes[i].subcommand_id #
                    subcommand_scopes[j].subcommand_id

\* C6: scope names are pairwise distinct: no subcommand is named like the
\* program and no two subcommands have the same name.
C6_UniqueScopeNames ==
    /\ \A i \in 1..Len(subcommand_scopes) :
           subcommand_scopes[i].subcommand_name # main_scope.subcommand_name
    /\ \A i, j \in 1..Len(subcommand_scopes) :
           i # j => subcommand_scopes[i].subcommand_name #
                    subcommand_scopes[j].subcommand_name

\* C7: every entry of string_options names an entry of params_and_args of
\* the same scope that is a String with restrict_to_declared_options set.
C7_OptionsOfRestrictedStrings ==
    \A o \in 1..Len(string_options) :
        \E i \in 1..Len(params_and_args) :
            /\ params_and_args[i].subcommand_id = string_options[o].subcommand_id
            /\ params_and_args[i].name = string_options[o].param_or_arg_name
            /\ params_and_args[i].type = CLIC_STRING
            /\ params_and_args[i].restrict_to_declared_options # 0

\* C8: on entry clic_parse consumes exactly one token and reports the id of a
\* subcommand whose name is exactly argv[1] when there is one, and otherwise
\* consumes nothing and reports 0, the main scope (the report goes through
\* the subcommand_id pointer, so it is observed when that is not null).
C8_SubcommandDetection ==
    [][(pc = "idle" /\ pc' = "params") =>
          LET named == { i \in 1..Len(subcommand_scopes) :
                           /\ Len(argv') > 1
                           /\ subcommand_scopes[i].subcommand_name = argv'[2] }
          IN  IF named # {}
              THEN /\ nb_processed_arguments' = 1
                   /\ active_scope'.subcommand_id # 0
                   /\ ~ out_null' =>
                          \E i \in named : out_subcommand_id' =
                                           subcommand_scopes[i].subcommand_id
              ELSE /\ nb_processed_arguments' = 0
                   /\ active_scope' = main_scope
                   /\ ~ out_null' => out_subcommand_id' = 0]_vars

\* argv[1] names the subcommand "a" and not the registered "ab": its id was
\* reported and one token consumed
C8_Witness ==
    /\ status = "running"
    /\ pc = "params"
    /\ Len(argv) > 1
    /\ argv[2] = <<"a">>
    /\ \E i \in 1..Len(subcommand_scopes) :
           subcommand_scopes[i].subcommand_name = <<"a", "b">>
    /\ ~ out_null
    /\ out_subcommand_id = active_scope.subcommand_id
    /\ out_subcommand_id # 0
    /\ nb_processed_arguments = 1

\* the tokens clic_parse's parameter loop consumes from argv[k] on, counted
\* as C9 counts them: 1 for a Flag or a Bool, 2 for an Int or a String, 1 for
\* "--", and nothing from the first token that is no declared parameter
RECURSIVE claimed_parameter_tokens(_)
claimed_parameter_tokens(k) ==
    LET s == argv_at(argv, k)
        found == find_param(active_scope.subcommand_id, parameter_name(s))
    IN  IF s = NULL THEN 0
        ELSE IF s = <<"-", "-">> THEN 1
        ELSE IF parameter_name(s) = NULL \/ found = 0 THEN 0
        ELSE IF params_and_args[found].type \in {CLIC_FLAG, CLIC_BOOL}
        THEN 1 + claimed_parameter_tokens(k + 1)
        ELSE 2 + claimed_parameter_tokens(k + 2)

\* the positional arguments declared for the active scope
positional_arguments ==
    { i \in 1..Len(params_and_args) :
        /\ params_and_args[i].subcommand_id = active_scope.subcommand_id
        /\ params_and_args[i].is_required # 0 }

\* the count C9 gives for the command line of a returned clic_parse
claimed_result ==
    LET sub == IF active_scope.subcommand_id # 0 THEN 1 ELSE 0
    IN  sub + claimed_parameter_tokens(1 + sub) + Cardinality(positional_arguments)

\* C9: the value clic_parse returns is the number of tokens consumed: 1 for a
\* matched subcommand, those of the parameters and of "--", and 1 for each
\* positional argument of the active scope (on a command line that has a
\* token for each of them); it never exceeds the number of tokens after
\* argv[0].
C9_ResultIsConsumedCount ==
    Returned =>
        /\ ret <= Len(argv) - 1
        /\ claimed_result <= Len(argv) - 1 => ret = claimed_result

\* C10: in the parameter loop the token "--" is consumed, counts for one and
\* ends the loop; no token at or after a "--" is ever searched among the
\* declared parameters, and nothing is searched once the loop has ended.
C10_SentinelEndsParameters ==
    [][/\ (status = "running" /\ pc = "params"
              /\ argv_at(argv, 1 + nb_processed_arguments) = <<"-", "-">>) =>
             /\ nb_processed_arguments' = nb_processed_arguments + 1
             /\ pc' = "args"
             /\ status' = "running"
             /\ looked_up' = looked_up
       /\ \A k \in looked_up' : \A j \in 1..k : argv_at(argv', j) # <<"-", "-">>
       /\ pc = "args" => looked_up' = looked_up]_vars

\* clic_parse returned after a "--" that a token with parameter syntax
\* follows: the "--" was counted and that token was not searched
C10_Witness ==
    /\ Returned
    /\ \E k \in 1..(Len(argv) - 2) :
           /\ argv_at(argv, k) = <<"-", "-">>
           /\ parameter_name(argv_at(argv, k + 1)) # NULL
           /\ argv_at(argv, k + 1) # <<"-", "-">>
           /\ ret = k
    /\ looked_up = {}

\* the process ended through exit(EXIT_FAILURE), the only way clic.h has to
\* report an error (clic_fail)
ExitFailure == status = "config_error"

\* the parameter loop is about to inspect a token
InParameterLoop == status = "running" /\ pc = "params"

\* the token the parameter loop is about to inspect
current_token == argv_at(argv, 1 + nb_processed_arguments)

\* the entry of the active scope the parameter loop finds for that token,
\* 0 when it ends on it or finds none
current_match ==
    IF \/ current_token = NULL
       \/ current_token = <<"-", "-">>
       \/ parameter_name(current_token) = NULL
    THEN 0
    ELSE find_param(active_scope.subcommand_id, parameter_name(current_token))

\* that token has the syntax of a parameter and the loop finds no entry for it
current_unmatched ==
    /\ current_token # NULL
    /\ current_token # <<"-", "-">>
    /\ parameter_name(current_token) # NULL
    /\ current_match = 0

\* the token is -c for a declared Flag c, or --name / --no-name for a
\* declared Bool name, of the active scope
current_is_flag_or_bool ==
    /\ current_match # 0
    /\ \/ /\ params_and_args[current_match].type = CLIC_FLAG
          /\ Len(current_token) = 2
       \/ /\ params_and_args[current_match].type = CLIC_BOOL
          /\ HasPrefix(current_token, <<"-", "-">>)

\* C11: the parameter loop consumes exactly one token for a Flag token -c and
\* for either form of a Bool (and sets or clears the target's bits: a store
\* clic_parse_param_or_arg, which writes nothing, does not make).
C11_FlagOrBoolConsumesOne ==
    [][(InParameterLoop /\ current_is_flag_or_bool) =>
          nb_processed_arguments' = nb_processed_arguments + 1]_vars

\* the literals registered for entry i of params_and_args
string_options_of(i) ==
    { string_options[o].value : o \in
        { o \in 1..Len(string_options) :
            /\ string_options[o].subcommand_id = params_and_args[i].subcommand_id
            /\ string_options[o].param_or_arg_name = params_and_args[i].name } }

\* the index in argv of the value token of a call of clic_parse_param_or_arg:
\* arg2 for a parameter (--name value), arg1 for a positional argument
value_index(call) ==
    IF call.loop = "parameters" THEN call.arg1 + 1 ELSE call.arg1

\* C12: clic_parse goes on (or returns) after it has processed a restricted
\* String entry that has registered literals (a parameter --name value, or a
\* positional argument) only if the value token is one of those literals;
\* with any other value the process has ended in error.
C12_RestrictedValueChecked ==
    status = "running" =>
        \A call \in parsed :
            (/\ params_and_args[call.param].type = CLIC_STRING
             /\ params_and_args[call.param].restrict_to_declared_options # 0
             /\ string_options_of(call.param) # {}
             /\ call.loop = "parameters" =>
                    HasPrefix(argv_at(argv, call.arg1), <<"-", "-">>)
             /\ argv_at(argv, value_index(call)) # NULL) =>
                argv_at(argv, value_index(call)) \in string_options_of(call.param)

\* C13: a token with parameter syntax that matches no entry of the active
\* scope, and is neither --help nor --version with a version string, ends the
\* process with an error.
C13_UnrecognizedParameterFails ==
    [][(/\ InParameterLoop
        /\ current_unmatched
        /\ current_token # <<"-","-","h","e","l","p">>
        /\ ~ (/\ current_token = <<"-","-","v","e","r","s","i","o","n">>
              /\ metadata.version # NULL)) =>
          ExitFailure']_vars

\* C14: in the parameter loop an unmatched --help ends the process with
\* success; an unmatched --version does if and only if clic_init was given a
\* version string; in both cases no token is consumed, and a process that
\* has ended consumes and inspects nothing more.
C14_HelpAndVersionExit ==
    [][/\ (InParameterLoop /\ current_unmatched) =>
             /\ current_token = <<"-","-","h","e","l","p">> =>
                    /\ status' = "exit_success"
                    /\ nb_processed_arguments' = nb_processed_arguments
             /\ current_token = <<"-","-","v","e","r","s","i","o","n">> =>
                    /\ status' = "exit_success" <=> metadata.version # NULL
                    /\ nb_processed_arguments' = nb_processed_arguments
       /\ status = "exit_success" => UNCHANGED vars]_vars

\* the process ended with success on a --help that followed a consumed token
C14_Witness ==
    /\ status = "exit_success"
    /\ pc = "params"
    /\ current_token = <<"-","-","h","e","l","p">>
    /\ nb_processed_arguments = 1
    /\ ret = NoRet

\* the parameter loop has ended and the named arguments loop is about to run
AfterParameterLoop == status = "running" /\ pc = "args"

\* C15: when the active scope declares a positional argument and no token
\* remains after the parameter loop, clic_parse ends the process with an
\* error and returns no count.
C15_MissingArgumentFails ==
    [][(/\ AfterParameterLoop
        /\ positional_arguments # {}
        /\ current_token = NULL) =>
          /\ ExitFailure'
          /\ ret' = NoRet]_vars

\* C16: when tokens remain beyond the subcommand, the parameters and one
\* token for each positional argument of the active scope, clic_parse ends
\* the process with an error if the scope does not accept unnamed arguments,
\* and returns if it does.
C16_TooManyArgumentsFails ==
    [][(/\ AfterParameterLoop
        /\ 1 + nb_processed_arguments + Cardinality(positional_arguments)
               < Len(argv)) =>
          IF active_scope.accept_unnamed_arguments = 0
          THEN ExitFailure' /\ ret' = NoRet
          ELSE status' = "running" /\ ret' # NoRet]_vars

\* the calls clic_parse made for the positional arguments
positional_calls == { call \in parsed : call.loop = "named arguments" }

\* the rank of entry i among the positional arguments of the active scope,
\* in declaration order
positional_rank(i) == Cardinality({ j \in positional_arguments : j <= i })

\* C17: the k-th positional argument declared for the active scope is given
\* the k-th token that remains after the parameter loop (on a command line
\* that has a token for each of them), and no entry of another scope and no
\* optional parameter is given one.
C17_PositionalOrder ==
    Returned =>
        /\ \A call \in positional_calls : call.param \in positional_arguments
        /\ \A first, call \in positional_calls :
               (/\ positional_rank(first.param) = 1
                /\ argv_at(argv, first.arg1 + Cardinality(positional_arguments)
                                             - 1) # NULL) =>
                   call.arg1 = first.arg1 + positional_rank(call.param) - 1

\* C18: an iteration of the parameter loop ends the loop, ends the process,
\* or consumes at least one token.
C18_ParameterLoopProgresses ==
    [][InParameterLoop =>
          \/ pc' # "params"
          \/ status' # "running"
          \/ nb_processed_arguments' > nb_processed_arguments]_vars

\* C19: every entry clic_parse processes, as a parameter or as a positional
\* argument, belongs to the active scope.
C19_ScopeIsolation ==
    \A call \in parsed :
        params_and_args[call.param].subcommand_id = active_scope.subcommand_id

\* a subcommand is active and the parameter loop searched a token whose name
\* is that of an entry of the main scope: nothing was processed
C19_Witness ==
    /\ InParameterLoop
    /\ active_scope.subcommand_id # 0
    /\ (1 + nb_processed_arguments) \in looked_up
    /\ \E i \in 1..Len(params_and_args) :
           /\ params_and_args[i].subcommand_id = 0
           /\ params_and_args[i].name = parameter_name(current_token)
    /\ parsed = {}

\* C20: the parameter loop never processes a positional (is_required) entry.
C20_PositionalNotMatchedByName ==
    \A call \in parsed :
        call.loop = "parameters" => params_and_args[call.param].is_required = 0

\* C21: a clic_parse called with a null subcommand_id pointer writes nothing
\* through it and does not crash on it: it goes on to its loops and, when it
\* returns, returns its count of consumed tokens.
C21_NullPointerAccepted ==
    (is_parsed = 1 /\ out_null) =>
        /\ status # "crash"
        /\ out_subcommand_id = Unset
        /\ Returned => ret = nb_processed_arguments
====
